---- MODULE Spec2Model ----
(***************************************************************************)
(* Model of monitor_gov_page.py: one scheduled run fetches the capacity    *)
(* market page and the DESNZ search listing, diffs the extracted items     *)
(* against the snapshot kept in last_state.json, mails an alert and then   *)
(* overwrites the snapshot.  Runs follow each other; each run is a fresh   *)
(* process, so only the state file survives from one run to the next.      *)
(***************************************************************************)
EXTENDS Integers, Sequences, FiniteSets, TLC

\* ------------------------------------------------------------------ bounds
\* number of scheduled runs that are explored
MaxRuns == 3
\* number of <a> elements on the capacity market page
MaxAnchors == 1
\* number of <a> elements on the search listing page
MaxResults == 2

\* ------------------------------------------------------------- constants
SPECIFIC_URL == "https://www.gov.uk/government/publications/capacity-market-auction-parameters-letter-from-desnz-to-neso-july-2025"
PARENT_URL == "https://www.gov.uk/search/all?organisations[]=department-for-energy-security-and-net-zero&order=updated-newest&parent=department-for-energy-security-and-net-zero"
GOV_UK == "https://www.gov.uk"
PUBLICATION_PREFIX == "/government/publications/"
DOC_SUFFIXES == {".pdf", ".docx", ".xlsx", ".csv"}
\* the first-run mail lists the first 10 publications
FirstRunShown == 10

\* Python's None, as a value comparable with the dict-shaped values
None == [None |-> TRUE]

\* ------------------------------------------------------- string helpers
\* str.startswith
StartsWith(s, p) == Len(s) >= Len(p) /\ SubSeq(s, 1, Len(p)) = p

\* str.endswith with a tuple of suffixes
EndsWithAny(s, sufs) ==
    \E x \in sufs : Len(s) >= Len(x) /\ SubSeq(s, Len(s) - Len(x) + 1, Len(s)) = x

\* link['href'] if link['href'].startswith('http') else f"https://www.gov.uk{link['href']}"
AbsoluteUrl(href) == IF StartsWith(href, "http") THEN href ELSE GOV_UK \o href

\* soup.find(...).get_text() if the element exists else a default
TextOr(elems, default) == IF Len(elems) > 0 THEN elems[1] ELSE default

\* dict.get(key, default)
Get(d, k, default) == IF k \in DOMAIN d THEN d[k] ELSE default

Range(s) == {s[i] : i \in 1..Len(s)}

BSeq(S, n) == UNION {[1..k -> S] : k \in 0..n}

Urls(items) == {items[i].url : i \in 1..Len(items)}

\* ---------------------------------------------------------- the inputs
\* An <a> of the capacity market page: whether it is the first link of a
\* <section class="attachment">, its class list, its href and its text.
DocAnchors ==
    [section : BOOLEAN,
     classes : {{}, {"govuk-link"}, {"govuk-link", "download"}},
     href : {"/a.pdf", "https://www.gov.uk/a.pdf"},
     text : {"Report A"}]
    \cup
    {[section |-> FALSE, classes |-> {"govuk-link"}, href |-> "/guidance",
      text |-> "Guidance"]}

\* What requests.get + BeautifulSoup hand to fetch_page_content: a failure
\* (network error, HTTP error status) or the parsed page.
FetchError == [ok |-> FALSE]
SpecificResponses ==
    {FetchError} \cup
    [ok : {TRUE},
     anchors : BSeq(DocAnchors, MaxAnchors),
     h1 : {<<"Capacity Market auction parameters">>},
     time : {<<>>, <<"1 July 2025">>}]

\* An <a> of the search listing: whether it is the title link of a
\* gem-c-document-list__item, with the <p> description and <time> of that item.
P1 == "/government/publications/p1"
P2 == "/government/publications/p2"
N1 == "/government/news/n1"
ListAnchors ==
    [li_title : {TRUE}, text : {"Old", "New"}, href : {P1},
     description : {<<>>}, time : {<<"3 November 2026">>}]
    \cup
    [li_title : {TRUE}, text : {"Old"}, href : {P2, N1},
     description : {<<>>}, time : {<<"3 November 2026">>}]
    \cup
    [li_title : {FALSE}, text : {"", "Old"}, href : {P1},
     description : {<<>>}, time : {<<>>}]
ListingResponses ==
    {FetchError} \cup [ok : {TRUE}, anchors : BSeq(ListAnchors, MaxResults)]

\* ------------------------------------------------- fetch_page_content
RECURSIVE AttachmentDocs(_)
AttachmentDocs(anchors) ==
    IF anchors = <<>> THEN <<>>
    ELSE LET a == Head(anchors)
             rest == AttachmentDocs(Tail(anchors))
         IN IF a.section
            THEN <<[title |-> a.text, url |-> AbsoluteUrl(a.href), type |-> "attachment"]>> \o rest
            ELSE rest

RECURSIVE DownloadDocs(_)
DownloadDocs(anchors) ==
    IF anchors = <<>> THEN <<>>
    ELSE LET a == Head(anchors)
             rest == DownloadDocs(Tail(anchors))
         IN IF "govuk-link" \in a.classes
               /\ ("download" \in a.classes \/ EndsWithAny(a.href, DOC_SUFFIXES))
            THEN <<[title |-> a.text, url |-> AbsoluteUrl(a.href), type |-> "document"]>> \o rest
            ELSE rest

fetch_page_content(url, resp, now) ==
    IF ~resp.ok THEN None
    ELSE [page_title |-> TextOr(resp.h1, "Unknown"),
          last_updated |-> TextOr(resp.time, "Unknown"),
          documents |-> AttachmentDocs(resp.anchors) \o DownloadDocs(resp.anchors),
          check_time |-> now,
          url |-> url]

\* --------------------------------------------- fetch_desnz_publications
RECURSIVE SearchResultPubs(_)
SearchResultPubs(anchors) ==
    IF anchors = <<>> THEN <<>>
    ELSE LET a == Head(anchors)
             rest == SearchResultPubs(Tail(anchors))
         IN IF a.li_title /\ StartsWith(a.href, PUBLICATION_PREFIX)
            THEN <<[title |-> a.text, url |-> GOV_UK \o a.href,
                    description |-> TextOr(a.description, ""),
                    date |-> TextOr(a.time, "Unknown"),
                    found_on |-> "desnz_search"]>> \o rest
            ELSE rest

RECURSIVE AllLinkPubs(_, _)
AllLinkPubs(anchors, publications) ==
    IF anchors = <<>> THEN publications
    ELSE LET a == Head(anchors)
             full_url == GOV_UK \o a.href
         IN IF StartsWith(a.href, PUBLICATION_PREFIX)
               /\ a.text # "" /\ full_url \notin Urls(publications)
            THEN AllLinkPubs(Tail(anchors),
                     Append(publications,
                            [title |-> a.text, url |-> full_url, description |-> "",
                             date |-> "Unknown", found_on |-> "desnz_search"]))
            ELSE AllLinkPubs(Tail(anchors), publications)

RECURSIVE RemoveDuplicates(_, _)
RemoveDuplicates(publications, seen) ==
    IF publications = <<>> THEN <<>>
    ELSE LET pub == Head(publications)
         IN IF pub.url \notin seen
            THEN <<pub>> \o RemoveDuplicates(Tail(publications), seen \cup {pub.url})
            ELSE RemoveDuplicates(Tail(publications), seen)

fetch_desnz_publications(resp) ==
    IF ~resp.ok THEN <<>>
    ELSE LET found == SearchResultPubs(resp.anchors)
             publications == IF found = <<>> THEN AllLinkPubs(resp.anchors, <<>>) ELSE found
         IN RemoveDuplicates(publications, {})

\* What the two fetches can return over all responses.  The page's check_time
\* is the clock reading of the run and is filled in by the calling step.
SpecificOutcomes ==
    {fetch_page_content(SPECIFIC_URL, resp, 0) : resp \in SpecificResponses}
ListingOutcomes == {fetch_desnz_publications(resp) : resp \in ListingResponses}

\* ------------------------------------------------------ the state file
\* last_state.json: absent, unparsable, or the JSON text of a dict.  A file
\* left by an earlier version of the script tracks the capacity market page only.
NoFile == [kind |-> "missing"]
CorruptFile == [kind |-> "corrupt"]
JsonFile(state) == [kind |-> "json", value |-> state]
LegacyStates ==
    {[specific_page_documents |-> docs, check_time |-> 0] :
        docs \in {<<>>, <<[title |-> "Report A", url |-> "https://www.gov.uk/a.pdf",
                          type |-> "attachment"]>>}}
InitialFiles == {NoFile, CorruptFile} \cup {JsonFile(s) : s \in LegacyStates}

\* faulty variant: an unparsable file is read as an empty record instead of None
load_previous_state_Partial(f) ==
    IF f.kind = "json" THEN f.value
    ELSE IF f.kind = "corrupt" THEN [check_time |-> 0] ELSE None

\* os.path.exists + json.load, every exception turned into None
load_previous_state(f) == IF f.kind = "json" THEN f.value ELSE None

\* ------------------------------------------------------- compare_states
\* {item['url']: item for item in items}: a later item replaces an earlier one
DictByUrl(items) ==
    [u \in Urls(items) |->
        items[CHOOSE i \in 1..Len(items) :
                 /\ items[i].url = u
                 /\ \A j \in 1..Len(items) : items[j].url = u => j <= i]]

\* the orders in which iterating a Python set may yield its elements
Orderings(S) ==
    {f \in [1..Cardinality(S) -> S] : \A i, j \in 1..Cardinality(S) : f[i] = f[j] => i = j}

\* `not previous`
Falsy(d) == d = None \/ DOMAIN d = {}

\* faulty variant: an item is keyed by url and title, so a renamed item counts as new
NewUrlsOrRenamed(previous, current, key) ==
    IF Falsy(previous) THEN {}
    ELSE {x.url : x \in {y \in Range(Get(current, key, <<>>)) :
                            \A i \in 1..Len(Get(previous, key, <<>>)) :
                               Get(previous, key, <<>>)[i].url # y.url
                               \/ Get(previous, key, <<>>)[i].title # y.title}}

NewUrls(previous, current, key) ==
    IF Falsy(previous) THEN {}
    ELSE Urls(Get(current, key, <<>>)) \ Urls(Get(previous, key, <<>>))

\* dict.get(key) of a string field, None being the empty tuple
GetOpt(d, k) == IF k \in DOMAIN d THEN <<d[k]>> ELSE <<>>

\* faulty variant: the first run reports no publications
compare_states_NoBaseline(previous, current, doc_order, pub_order) ==
    IF Falsy(previous)
    THEN [is_first_run |-> TRUE,
          new_documents |-> Get(current, "specific_page_documents", <<>>),
          new_publications |-> <<>>,
          message |-> "First run - monitoring started"]
    ELSE [is_first_run |-> FALSE,
          new_documents |-> [i \in 1..Len(doc_order) |->
              DictByUrl(Get(current, "specific_page_documents", <<>>))[doc_order[i]]],
          new_publications |-> [i \in 1..Len(pub_order) |->
              DictByUrl(Get(current, "desnz_publications", <<>>))[pub_order[i]]],
          page_updated |-> GetOpt(previous, "specific_page_last_updated")
                             # GetOpt(current, "specific_page_last_updated")]

\* faulty variant: page_updated compares the check times, which always differ
compare_states_ByCheckTime(previous, current, doc_order, pub_order) ==
    IF Falsy(previous)
    THEN [is_first_run |-> TRUE,
          new_documents |-> Get(current, "specific_page_documents", <<>>),
          new_publications |-> Get(current, "desnz_publications", <<>>),
          message |-> "First run - monitoring started"]
    ELSE [is_first_run |-> FALSE,
          new_documents |-> [i \in 1..Len(doc_order) |->
              DictByUrl(Get(current, "specific_page_documents", <<>>))[doc_order[i]]],
          new_publications |-> [i \in 1..Len(pub_order) |->
              DictByUrl(Get(current, "desnz_publications", <<>>))[pub_order[i]]],
          page_updated |-> TRUE]

compare_states(previous, current, doc_order, pub_order) ==
    IF Falsy(previous)
    THEN [is_first_run |-> TRUE,
          new_documents |-> Get(current, "specific_page_documents", <<>>),
          new_publications |-> Get(current, "desnz_publications", <<>>),
          message |-> "First run - monitoring started"]
    ELSE LET curr_docs == DictByUrl(Get(current, "specific_page_documents", <<>>))
             curr_pubs == DictByUrl(Get(current, "desnz_publications", <<>>))
         IN [is_first_run |-> FALSE,
             new_documents |-> [i \in 1..Len(doc_order) |-> curr_docs[doc_order[i]]],
             new_publications |-> [i \in 1..Len(pub_order) |-> curr_pubs[pub_order[i]]],
             page_updated |-> GetOpt(previous, "specific_page_last_updated")
                                # GetOpt(current, "specific_page_last_updated")]

\* ----------------------------------------------------- send_email_alert
FirstN(s, n) == SubSeq(s, 1, IF Len(s) < n THEN Len(s) ELSE n)

\* credentials: SENDER_EMAIL, SENDER_PASSWORD and RECIPIENT_EMAIL are all set;
\* smtp_ok: the SMTP login and send raise nothing.
send_email_alert(chg, current, credentials, smtp_ok) ==
    IF ~credentials THEN [result |-> FALSE, outcome |-> "no_credentials", sent |-> <<>>]
    ELSE IF ~chg.is_first_run /\ chg.new_documents = <<>> /\ chg.new_publications = <<>>
    THEN [result |-> FALSE, outcome |-> "no_changes", sent |-> <<>>]
    ELSE LET msg ==
                 IF chg.is_first_run
                 THEN [subject |-> "Monitoring Started - DESNZ Publications",
                       documents |-> Len(Get(current, "specific_page_documents", <<>>)),
                       publications |-> FirstN(Get(current, "desnz_publications", <<>>),
                                               FirstRunShown)]
                 ELSE [subject |-> "ALERT: New DESNZ Publications Detected",
                       documents |-> Len(chg.new_documents),
                       publications |-> chg.new_publications]
         IN IF smtp_ok
            THEN [result |-> TRUE, outcome |-> "sent", sent |-> <<msg>>]
            ELSE [result |-> FALSE, outcome |-> "error", sent |-> <<>>]

\* ---------------------------------------------------------------- state
VARIABLES
    run,            \* number of runs started so far; also the clock
    pc,             \* position of the current run in main()
    file,           \* last_state.json
    specific_page,  \* main's locals
    desnz_pubs,
    current_state,
    previous_state,
    changes,
    calls,          \* per run: how often load/compare/notify/save were called
    notify,         \* what send_email_alert returned in this run
    outbox,         \* the messages handed to SMTP in this run
    fileAtStart,    \* history: the state file when the run started
    lastSaved,      \* history: the state saved by the last completed run
    olderUrls       \* history: publication urls saved by completed runs before it

vars == <<run, pc, file, specific_page, desnz_pubs, current_state, previous_state,
          changes, calls, notify, outbox, fileAtStart, lastSaved, olderUrls>>

locals == <<specific_page, desnz_pubs, current_state, previous_state, changes>>
history == <<lastSaved, olderUrls>>

NoCalls == [load |-> 0, compare |-> 0, notify |-> 0, save |-> 0]
NotCalled == [result |-> FALSE, outcome |-> "not_called", sent |-> <<>>]

Init ==
    /\ run = 0
    /\ pc = "start"
    /\ file \in InitialFiles
    /\ specific_page = None
    /\ desnz_pubs = <<>>
    /\ current_state = None
    /\ previous_state = None
    /\ changes = None
    /\ calls = NoCalls
    /\ notify = NotCalled
    /\ outbox = <<>>
    /\ fileAtStart = file
    /\ lastSaved = load_previous_state(file)
    /\ olderUrls = {}

\* ----------------------------------------------------------------- main
\* A new process starts: nothing but the state file is carried over.
StartsRun ==
    /\ pc \in {"start", "done", "returned"}
    /\ run < MaxRuns
    /\ run' = run + 1
    /\ fileAtStart' = file
    /\ calls' = NoCalls
    /\ notify' = NotCalled
    /\ outbox' = <<>>

\* faulty variant: the state file is truncated before the early return
MainFetchFailedTruncates ==
    /\ StartsRun
    /\ \E page \in SpecificOutcomes :
          /\ page = None
          /\ specific_page' = page
    /\ pc' = "returned"
    /\ file' = CorruptFile
    /\ desnz_pubs' = <<>>
    /\ current_state' = None
    /\ previous_state' = None
    /\ changes' = None
    /\ UNCHANGED history

\* specific_page = fetch_page_content(SPECIFIC_URL) returned None: early return
MainFetchFailed ==
    /\ StartsRun
    /\ \E page \in SpecificOutcomes :
          /\ page = None
          /\ specific_page' = page
    /\ pc' = "returned"
    /\ desnz_pubs' = <<>>
    /\ current_state' = None
    /\ previous_state' = None
    /\ changes' = None
    /\ UNCHANGED <<file, history>>

MainFetchPage ==
    /\ StartsRun
    /\ \E page \in SpecificOutcomes :
          /\ page # None
          /\ specific_page' = [page EXCEPT !.check_time = run']
    /\ pc' = "fetched"
    /\ desnz_pubs' = <<>>
    /\ current_state' = None
    /\ previous_state' = None
    /\ changes' = None
    /\ UNCHANGED <<file, history>>

BuildState(page, pubs, now) ==
    [specific_page_documents |-> page.documents,
     specific_page_title |-> page.page_title,
     specific_page_last_updated |-> page.last_updated,
     desnz_publications |-> pubs,
     check_time |-> now]

\* desnz_pubs = fetch_desnz_publications(); current_state = {...}
MainFetchPublications ==
    /\ pc = "fetched"
    /\ \E pubs \in ListingOutcomes :
          /\ desnz_pubs' = pubs
          /\ current_state' = BuildState(specific_page, pubs, run)
    /\ pc' = "built"
    /\ UNCHANGED <<run, file, specific_page, previous_state, changes, calls, notify,
                   outbox, fileAtStart, history>>

\* previous_state = load_previous_state()
MainLoad ==
    /\ pc = "built"
    /\ previous_state' = load_previous_state(file)
    /\ calls' = [calls EXCEPT !.load = @ + 1]
    /\ pc' = "loaded"
    /\ UNCHANGED <<run, file, specific_page, desnz_pubs, current_state, changes, notify,
                   outbox, fileAtStart, history>>

\* changes = compare_states(previous_state, current_state)
MainCompare ==
    /\ pc = "loaded"
    /\ \E doc_order \in Orderings(NewUrls(previous_state, current_state, "specific_page_documents")),
          pub_order \in Orderings(NewUrls(previous_state, current_state, "desnz_publications")) :
          changes' = compare_states(previous_state, current_state, doc_order, pub_order)
    /\ calls' = [calls EXCEPT !.compare = @ + 1]
    /\ pc' = "compared"
    /\ UNCHANGED <<run, file, specific_page, desnz_pubs, current_state, previous_state,
                   notify, outbox, fileAtStart, history>>

\* faulty variant: send_email_alert is called in every run
MainReportAlways ==
    /\ pc = "compared"
    /\ \E credentials \in BOOLEAN, smtp_ok \in BOOLEAN :
          /\ notify' = send_email_alert(changes, current_state, credentials, smtp_ok)
          /\ outbox' = outbox \o notify'.sent
          /\ calls' = [calls EXCEPT !.notify = @ + 1]
    /\ pc' = "reported"
    /\ UNCHANGED <<run, file, locals, fileAtStart, history>>

\* "Report findings": the mail goes out on a first run and when something is new
MainReport ==
    /\ pc = "compared"
    /\ IF changes.is_first_run \/ changes.new_documents # <<>> \/ changes.new_publications # <<>>
       THEN \E credentials \in BOOLEAN, smtp_ok \in BOOLEAN :
               /\ notify' = send_email_alert(changes, current_state, credentials, smtp_ok)
               /\ outbox' = outbox \o notify'.sent
               /\ calls' = [calls EXCEPT !.notify = @ + 1]
       ELSE UNCHANGED <<notify, outbox, calls>>
    /\ pc' = "reported"
    /\ UNCHANGED <<run, file, locals, fileAtStart, history>>

\* faulty variant: a mail that failed to send leaves the state unsaved
MainSaveUnlessMailFailed ==
    /\ pc = "reported"
    /\ notify.outcome # "error"
    /\ file' = JsonFile(current_state)
    /\ calls' = [calls EXCEPT !.save = @ + 1]
    /\ lastSaved' = current_state
    /\ olderUrls' = IF lastSaved = None THEN olderUrls
                    ELSE olderUrls \cup Urls(Get(lastSaved, "desnz_publications", <<>>))
    /\ pc' = "done"
    /\ UNCHANGED <<run, locals, notify, outbox, fileAtStart>>

\* faulty variant: the saved state keeps the publications of the previous state
MainSaveMerged ==
    /\ pc = "reported"
    /\ LET merged == [current_state EXCEPT !.desnz_publications =
                         RemoveDuplicates(@ \o Get(previous_state, "desnz_publications", <<>>), {})]
       IN /\ file' = JsonFile(merged)
          /\ lastSaved' = merged
    /\ calls' = [calls EXCEPT !.save = @ + 1]
    /\ olderUrls' = IF lastSaved = None THEN olderUrls
                    ELSE olderUrls \cup Urls(Get(lastSaved, "desnz_publications", <<>>))
    /\ pc' = "done"
    /\ UNCHANGED <<run, locals, notify, outbox, fileAtStart>>

\* save_current_state(current_state)
MainSave ==
    /\ pc = "reported"
    /\ file' = JsonFile(current_state)
    /\ calls' = [calls EXCEPT !.save = @ + 1]
    /\ lastSaved' = current_state
    /\ olderUrls' = IF lastSaved = None THEN olderUrls
                    ELSE olderUrls \cup Urls(Get(lastSaved, "desnz_publications", <<>>))
    /\ pc' = "done"
    /\ UNCHANGED <<run, locals, notify, outbox, fileAtStart>>

Next ==
    \/ MainFetchFailed
    \/ MainFetchPage
    \/ MainFetchPublications
    \/ MainLoad
    \/ MainCompare
    \/ MainReport
    \/ MainSave

Spec == Init /\ [][Next]_vars

\* ------------------------------------------- compare_states on its own
\* The states main can build from one pair of fetches.
DiffStates ==
    {BuildState(page, pubs, 1) : page \in SpecificOutcomes \ {None}, pubs \in ListingOutcomes}

DiffInit ==
    /\ run = 0
    /\ pc = "diff"
    /\ file = NoFile
    /\ specific_page = None
    /\ desnz_pubs = <<>>
    /\ previous_state \in DiffStates \cup LegacyStates
    /\ current_state \in DiffStates \cup LegacyStates
    /\ changes = None
    /\ calls = NoCalls
    /\ notify = NotCalled
    /\ outbox = <<>>
    /\ fileAtStart = NoFile
    /\ lastSaved = None
    /\ olderUrls = {}

DiffCompare ==
    /\ pc = "diff"
    /\ \E doc_order \in Orderings(NewUrls(previous_state, current_state, "specific_page_documents")),
          pub_order \in Orderings(NewUrls(previous_state, current_state, "desnz_publications")) :
          changes' = compare_states(previous_state, current_state, doc_order, pub_order)
    /\ calls' = [calls EXCEPT !.compare = @ + 1]
    /\ pc' = "diff_done"
    /\ UNCHANGED <<run, file, specific_page, desnz_pubs, current_state, previous_state,
                   notify, outbox, fileAtStart, history>>

DiffNext == DiffCompare

DiffSpec == DiffInit /\ [][DiffNext]_vars

\* ------------------------------------------------------------ properties
\* the run has a change set
Compared == pc \in {"compared", "reported", "done", "diff_done"}
FirstRun == Compared /\ changes.is_first_run
LaterRun == Compared /\ ~changes.is_first_run

Documents(state) == Get(state, "specific_page_documents", <<>>)
Publications(state) == Get(state, "desnz_publications", <<>>)

\* the change set's optional parts, absent ones read as empty / false
ChangedItems(chg) == Get(chg, "changed_items", <<>>)
PageUpdated(chg) == Get(chg, "page_updated", FALSE)

\* the items of cur whose url does not occur in prev
ItemsNotIn(cur, prev) == {x \in Range(cur) : x.url \notin Urls(prev)}

NoDuplicateUrls(items) ==
    \A i, j \in 1..Len(items) : items[i].url = items[j].url => i = j

FirstWithUrl(items, u) ==
    items[CHOOSE i \in 1..Len(items) :
             /\ items[i].url = u
             /\ \A j \in 1..Len(items) : items[j].url = u => i <= j]

\* C1: in a run with a previous state, the new items of each tracked snapshot
\* are exactly the items of current whose url is not in previous's snapshot
\* (a snapshot missing from previous being empty); removed items are not reported.
C1_NewItemsExact ==
    LaterRun =>
        /\ Range(changes.new_documents)
              = ItemsNotIn(Documents(current_state), Documents(previous_state))
        /\ Range(changes.new_publications)
              = ItemsNotIn(Publications(current_state), Publications(previous_state))

\* C2: without a previous state the change set is a first run and its new
\* items are the whole of current's snapshots, in both tracked snapshots.
C2_FirstRunAllNew ==
    (Compared /\ previous_state = None) =>
        /\ changes.is_first_run
        /\ changes.new_documents = Documents(current_state)
        /\ changes.new_publications = Publications(current_state)

C2_Witness ==
    /\ pc = "compared"
    /\ previous_state = None
    /\ changes.is_first_run
    /\ Len(changes.new_documents) = 2
    /\ Len(changes.new_publications) = 2

\* C3: comparing a state with itself yields no new items, no changed items
\* and page_updated false.
C3_Idempotent ==
    (pc = "diff_done" /\ previous_state = current_state) =>
        /\ changes.new_documents = <<>>
        /\ changes.new_publications = <<>>
        /\ ChangedItems(changes) = <<>>
        /\ PageUpdated(changes) = FALSE

C3_Witness ==
    /\ pc = "diff_done"
    /\ previous_state = current_state
    /\ Len(Documents(current_state)) = 2
    /\ Len(Publications(current_state)) = 2
    /\ changes.new_documents = <<>>

\* C4: in both tracked snapshots the items that reach the state have pairwise
\* distinct urls, and the item the diff keeps for a url is the first one seen.
C4_UniqueUrlsFirstWins ==
    /\ current_state # None =>
          /\ NoDuplicateUrls(Documents(current_state))
          /\ NoDuplicateUrls(Publications(current_state))
    /\ LaterRun =>
          /\ \A i \in 1..Len(changes.new_documents) :
                changes.new_documents[i]
                   = FirstWithUrl(Documents(current_state), changes.new_documents[i].url)
          /\ \A i \in 1..Len(changes.new_publications) :
                changes.new_publications[i]
                   = FirstWithUrl(Publications(current_state), changes.new_publications[i].url)

\* the publications whose url is in both states under different titles
Renames(prev, cur) ==
    {[url |-> u, oldTitle |-> DictByUrl(prev)[u].title, newTitle |-> DictByUrl(cur)[u].title] :
        u \in {v \in Urls(prev) \cap Urls(cur) : DictByUrl(prev)[v].title # DictByUrl(cur)[v].title}}

\* C5 as stated: the change set's changed items are exactly one entry
\* {url, oldTitle, newTitle} per publication whose title differs between
\* previous and current, and none for equal titles.
C5_RenameDetected ==
    LaterRun =>
        /\ Range(ChangedItems(changes))
              = Renames(Publications(previous_state), Publications(current_state))
        /\ Len(ChangedItems(changes))
              = Cardinality(Renames(Publications(previous_state), Publications(current_state)))

\* C5 as amended: compare_states detects no renames; a publication whose url
\* is in previous and in current is neither a changed item nor a new item,
\* whether or not its title differs.
C5_RenameInvisible ==
    LaterRun =>
        /\ "changed_items" \notin DOMAIN changes
        /\ \A u \in Urls(Publications(previous_state)) \cap Urls(Publications(current_state)) :
              u \notin Urls(changes.new_publications)

C5_Witness ==
    /\ pc = "compared"
    /\ ~changes.is_first_run
    /\ Renames(Publications(previous_state), Publications(current_state)) # {}
    /\ changes.new_publications = <<>>

NothingToReport ==
    /\ changes.new_documents = <<>>
    /\ changes.new_publications = <<>>
    /\ ChangedItems(changes) = <<>>
    /\ ~PageUpdated(changes)

\* C6: send_email_alert is called only on a first run or when new items,
\* changed items or page_updated report something; on a later run with
\* nothing to report it returns false and sends nothing.
C6_NotifyOnlyOnChange ==
    /\ calls.notify > 0 => (changes.is_first_run \/ ~NothingToReport)
    /\ (LaterRun /\ NothingToReport) =>
          /\ outbox = <<>>
          /\ \A credentials \in BOOLEAN, smtp_ok \in BOOLEAN :
                LET r == send_email_alert(changes, current_state, credentials, smtp_ok)
                IN ~r.result /\ r.sent = <<>>

C6_Witness ==
    /\ pc = "done"
    /\ ~changes.is_first_run
    /\ NothingToReport
    /\ calls.notify = 0
    /\ outbox = <<>>
    /\ Len(Publications(current_state)) = 2

\* C7: a run whose primary fetch succeeded saves the new state exactly once,
\* after the notification step, whatever that step's outcome.
C7_SaveOnceAfterNotify ==
    /\ calls.save > 0 => pc = "done"
    /\ pc = "done" => (calls.save = 1 /\ file = JsonFile(current_state))
    /\ pc = "reported" => ENABLED MainSave
    /\ pc \in {"fetched", "built", "loaded", "compared"} => ENABLED Next

C7_Witness ==
    /\ pc = "done"
    /\ calls.notify = 1
    /\ notify.outcome = "error"
    /\ calls.save = 1
    /\ file = JsonFile(current_state)

\* C8: after a failed primary fetch the run has returned without loading,
\* comparing, notifying or saving and the state file is as it was; a run
\* returns early for no other reason.
C8_EarlyReturn ==
    /\ pc = "returned" =>
          /\ specific_page = None
          /\ calls = NoCalls
          /\ previous_state = None
          /\ changes = None
          /\ outbox = <<>>
          /\ file = fileAtStart
    /\ (pc \notin {"start", "returned"}) => specific_page # None
    /\ pc \in {"fetched", "built", "loaded", "compared", "reported"} => ENABLED Next

C8_Witness ==
    /\ pc = "returned"
    /\ run = 2
    /\ file.kind = "json"
    /\ file = fileAtStart
    /\ Len(Publications(file.value)) = 2

\* C9: a missing or unparsable state file loads as None and the run is a
\* first run whose new items are all items of the current state.
C9_LoadFailureIsFirstRun ==
    (pc \in {"loaded", "compared", "reported"} /\ file.kind \in {"missing", "corrupt"}) =>
        /\ previous_state = None
        /\ pc # "loaded" =>
              /\ changes.is_first_run
              /\ Range(changes.new_documents) = Range(Documents(current_state))
              /\ Range(changes.new_publications) = Range(Publications(current_state))
              /\ Len(changes.new_documents) = Len(Documents(current_state))
              /\ Len(changes.new_publications) = Len(Publications(current_state))

C9_Witness ==
    /\ pc = "compared"
    /\ file.kind = "corrupt"
    /\ changes.is_first_run
    /\ Len(changes.new_publications) = 1

\* C10: a completed run persists exactly what it fetched, and a later run
\* reports a url as new exactly when it was fetched in this run and is not in
\* the state persisted by the preceding completed run.
C10_DiffAgainstLastRun ==
    /\ pc = "done" =>
          /\ file = JsonFile(BuildState(specific_page, desnz_pubs, run))
          /\ lastSaved = BuildState(specific_page, desnz_pubs, run)
    /\ (pc \in {"compared", "reported"} /\ ~changes.is_first_run) =>
          /\ lastSaved # None
          /\ Urls(changes.new_publications)
                = Urls(desnz_pubs) \ Urls(Publications(lastSaved))
          /\ Urls(changes.new_documents)
                = Urls(specific_page.documents) \ Urls(Documents(lastSaved))

\* a publication persisted two runs ago, gone in the last run, is new again
C10_Witness ==
    /\ pc = "compared"
    /\ ~changes.is_first_run
    /\ \E u \in Urls(changes.new_publications) : u \in olderUrls

====
